---------------------------- MODULE Spec2Model ----------------------------
(***************************************************************************)
(* Provider aggregation and resilience layer of ai-news-automation:        *)
(* NewsProviderManager (ordered failover, JSON file cache with one hour    *)
(* freshness and stale fallback), the NewsProvider health counters, the    *)
(* three concrete providers' fetch_news guards, and CategoryAnalyzer.      *)
(*                                                                         *)
(* Time is counted in whole hours.  Python's None is written "None" for    *)
(* strings (so that f"{None}" formats as in Python) and NoTime for         *)
(* timestamps.                                                             *)
(***************************************************************************)
EXTENDS Integers, Sequences, FiniteSets, TLC

(***************************************************************************)
(* Bounds of the model                                                     *)
(***************************************************************************)
MaxTime == 1
MaxRequests == 2
MaxBatch == 2
NThreads == 2
MaxCalls == 2
MaxWindow == 2
MaxHold == 1
MaxClock == 2
MaxTTL == 1
MaxOps == 4
NWorkers == 2
MaxChecks == 5
MaxLogs == 6
MaxErrTicks == 3
MaxProviderOps == 3

(***************************************************************************)
(* Values                                                                  *)
(***************************************************************************)
None == "None"
NoTime == -1
NoCategory == "None"

\* fetch_news(category) arguments explored; NoCategory is the default None
Categories == {NoCategory, "technology"}

\* messages of the exceptions the upstream services raise
UpstreamErrors == {"timeout"}

(***************************************************************************)
(* CategoryAnalyzer                                                        *)
(***************************************************************************)
\* keys of CATEGORY_PATTERNS, in dict order
CATEGORY_PATTERNS ==
    <<"technology", "science", "health", "sports", "business", "markets",
      "politics", "entertainment", "world">>

Labels == {CATEGORY_PATTERNS[i] : i \in 1..Len(CATEGORY_PATTERNS)}

\* CATEGORY_MAPPING, in dict order: <<pattern, standard>>
CATEGORY_MAPPING ==
    << <<"tech", "technology">>, <<"sci", "science">>, <<"health", "health">>,
       <<"sport", "sports">>, <<"business", "business">>,
       <<"politics", "politics">>, <<"entertainment", "entertainment">>,
       <<"opinion", "opinion">>, <<"world", "world">>,
       <<"finance", "markets">>, <<"financial", "markets">>,
       <<"market", "markets">>, <<"stock", "markets">> >>

\* the characters of the strings the analyzer compares
CharsOf(s) ==
    CASE s = "technology"    -> <<"t","e","c","h","n","o","l","o","g","y">>
      [] s = "science"       -> <<"s","c","i","e","n","c","e">>
      [] s = "health"        -> <<"h","e","a","l","t","h">>
      [] s = "sports"        -> <<"s","p","o","r","t","s">>
      [] s = "business"      -> <<"b","u","s","i","n","e","s","s">>
      [] s = "markets"       -> <<"m","a","r","k","e","t","s">>
      [] s = "politics"      -> <<"p","o","l","i","t","i","c","s">>
      [] s = "entertainment" -> <<"e","n","t","e","r","t","a","i","n","m","e","n","t">>
      [] s = "world"         -> <<"w","o","r","l","d">>
      [] s = "opinion"       -> <<"o","p","i","n","i","o","n">>
      [] s = "general"       -> <<"g","e","n","e","r","a","l">>
      [] s = "tech"          -> <<"t","e","c","h">>
      [] s = "sci"           -> <<"s","c","i">>
      [] s = "sport"         -> <<"s","p","o","r","t">>
      [] s = "finance"       -> <<"f","i","n","a","n","c","e">>
      [] s = "financial"     -> <<"f","i","n","a","n","c","i","a","l">>
      [] s = "market"        -> <<"m","a","r","k","e","t">>
      [] s = "stock"         -> <<"s","t","o","c","k">>
      [] s = "Tech "         -> <<"T","e","c","h"," ">>
      [] s = "biotech"       -> <<"b","i","o","t","e","c","h">>
      [] s = "lifestyle"     -> <<"l","i","f","e","s","t","y","l","e">>
      [] s = ""              -> <<>>

\* str.lower() on one character
LowerChar(c) ==
    CASE c = "T" -> "t"
      [] c = "S" -> "s"
      [] c = "A" -> "a"
      [] c = "I" -> "i"
      [] OTHER   -> c

Lower(cs) == [i \in 1..Len(cs) |-> LowerChar(cs[i])]

\* str.strip()
RECURSIVE Strip(_)
Strip(cs) ==
    IF cs = <<>> THEN cs
    ELSE IF Head(cs) = " " THEN Strip(Tail(cs))
    ELSE IF cs[Len(cs)] = " " THEN Strip(SubSeq(cs, 1, Len(cs) - 1))
    ELSE cs

\* `pattern in category` on strings
Contains(pat, cs) ==
    \E i \in 0..(Len(cs) - Len(pat)) : SubSeq(cs, i + 1, i + Len(pat)) = pat

\* _normalize_category: the standard label, or None
RECURSIVE MappingFrom(_, _)
MappingFrom(i, cs) ==
    IF i > Len(CATEGORY_MAPPING) THEN None
    ELSE IF Contains(CharsOf(CATEGORY_MAPPING[i][1]), cs)
         THEN CATEGORY_MAPPING[i][2]
         ELSE MappingFrom(i + 1, cs)

_normalize_category(category) ==
    LET cs == Strip(Lower(CharsOf(category)))
    IN  IF \E k \in Labels : CharsOf(k) = cs
        THEN CHOOSE k \in Labels : CharsOf(k) = cs
        ELSE MappingFrom(1, cs)

\* number of pattern matches of a text, per category (re.findall counts)
TextScores(text, label) ==
    CASE text = "plain"    -> 0
      [] text = "chip"     -> IF label \in {"technology", "science"} THEN 1 ELSE 0
      [] text = "earnings" -> IF label = "markets" THEN 3 ELSE 0
      [] text = "startup"  -> IF label \in {"technology", "business"} THEN 2 ELSE 0
      [] text = "match"    -> IF label = "sports" THEN 1 ELSE 0

\* Counter.most_common(1): the first key in insertion order with the top count
RECURSIVE TopFrom(_, _, _)
TopFrom(i, best, text) ==
    IF i > Len(CATEGORY_PATTERNS) THEN best
    ELSE TopFrom(i + 1,
                 IF TextScores(text, CATEGORY_PATTERNS[i]) > TextScores(text, best)
                 THEN CATEGORY_PATTERNS[i] ELSE best,
                 text)

_detect_category(article) ==
    LET top == TopFrom(2, CATEGORY_PATTERNS[1], article.text)
    IN  IF TextScores(article.text, top) >= 2 THEN top ELSE None

get_category(article) ==
    LET normalized == IF article.category # "" /\ article.category # None
                      THEN _normalize_category(article.category)
                      ELSE None
    IN  IF normalized # None THEN normalized
        ELSE IF _detect_category(article) # None THEN _detect_category(article)
        ELSE "general"


(***************************************************************************)
(* NewsProvider: per-provider availability flag and health counters        *)
(***************************************************************************)
PROVIDER_NAMES == <<"Guardian", "GDELT", "NewsAPI">>

ProviderIds == 1..Len(PROVIDER_NAMES)

\* NewsProvider.__init__ followed by the subclass constructor: the API-key
\* branch of Guardian and NewsAPI is overwritten by the two unconditional
\* assignments that follow it, so every provider starts available
NewProvider(name, has_key) ==
    LET base == [name |-> name, is_available |-> TRUE, last_error |-> None,
                 last_successful_fetch |-> NoTime, failure_count |-> 0,
                 consecutive_failures |-> 0, total_requests |-> 0,
                 successful_requests |-> 0]
        keyed == IF name # "GDELT" /\ ~has_key
                 THEN [base EXCEPT !.is_available = FALSE,
                                   !.last_error =
                                       IF name = "Guardian"
                                       THEN "Guardian API key not found"
                                       ELSE "NewsAPI key not found"]
                 ELSE base
    IN  [keyed EXCEPT !.is_available = TRUE, !.last_error = None]

mark_available(pr) ==
    [pr EXCEPT !.is_available = TRUE, !.last_error = None,
               !.consecutive_failures = 0]

mark_unavailable(pr, error) ==
    [pr EXCEPT !.is_available = FALSE, !.last_error = error,
               !.failure_count = @ + 1, !.consecutive_failures = @ + 1]

track_request(pr, success, t) ==
    IF success
    THEN [pr EXCEPT !.total_requests = @ + 1, !.successful_requests = @ + 1,
                    !.last_successful_fetch = t, !.consecutive_failures = 0]
    ELSE [pr EXCEPT !.total_requests = @ + 1, !.consecutive_failures = @ + 1]

(***************************************************************************)
(* Concrete providers.  `up` is what the upstream service does if it is    *)
(* asked: [kind |-> "raise", msg], [kind |-> "ok", items] (items may be    *)
(* empty).  The result is the provider object after the call, whether the  *)
(* call raised, the exception message and the articles returned.           *)
(***************************************************************************)
Raised(pr, msg) == [provider |-> pr, raised |-> TRUE, error |-> msg, articles |-> <<>>]

Returned(pr, arts) == [provider |-> pr, raised |-> FALSE, error |-> None, articles |-> arts]

GuardianFetchNews(pr, category, up, t) ==
    IF ~pr.is_available
    THEN Raised(pr, "Provider " \o pr.name \o " is not available: " \o pr.last_error)
    ELSE IF up.kind = "raise"
    THEN Raised([pr EXCEPT !.is_available = FALSE, !.last_error = up.msg], up.msg)
    ELSE Returned(pr, [i \in 1..Len(up.items) |->
                        [source |-> "Guardian", category |-> up.items[i].cat,
                         text |-> up.items[i].text, fetchedAt |-> NoTime]])

GdeltFetchNews(pr, category, up, t) ==
    IF ~pr.is_available
    THEN Raised(pr, "Provider " \o pr.name \o " is not available")
    ELSE IF up.kind = "raise"
    THEN Raised(mark_unavailable(pr, up.msg), up.msg)
    ELSE Returned(pr, [i \in 1..Len(up.items) |->
                        [source |-> "GDELT",
                         category |-> IF category # NoCategory /\ category # ""
                                      THEN category ELSE up.items[i].cat,
                         text |-> up.items[i].text, fetchedAt |-> t]])

NewsAPIFetchNews(pr, category, up, t) ==
    IF ~pr.is_available
    THEN Raised(pr, "Provider " \o pr.name \o " is not available: " \o pr.last_error)
    ELSE IF up.kind = "raise"
    THEN Raised([pr EXCEPT !.is_available = FALSE, !.last_error = up.msg], up.msg)
    ELSE Returned(pr, [i \in 1..Len(up.items) |->
                        [source |-> "NewsAPI",
                         category |-> IF category # NoCategory /\ category # ""
                                      THEN category ELSE "general",
                         text |-> up.items[i].text, fetchedAt |-> NoTime]])

ProviderFetchNews(pr, category, up, t) ==
    CASE pr.name = "Guardian" -> GuardianFetchNews(pr, category, up, t)
      [] pr.name = "GDELT"    -> GdeltFetchNews(pr, category, up, t)
      [] pr.name = "NewsAPI"  -> NewsAPIFetchNews(pr, category, up, t)

(***************************************************************************)
(* NewsProviderManager: cache files                                        *)
(***************************************************************************)
TTL_HOURS == 1

\* _get_cache_file: news_cache_{category or 'general'}.json
_get_cache_file(category) ==
    IF category = NoCategory \/ category = "" THEN "general" ELSE category

CacheKeys == {_get_cache_file(c) : c \in Categories}

\* _load_from_cache with the age comparison turned around
_load_from_cache_reversed_age(files, category, ignore_age, t) ==
    LET articles == files[_get_cache_file(category)]
        stamped  == IF articles # <<>> /\ articles[1].fetchedAt = NoTime
                    THEN [i \in 1..Len(articles) |->
                            [articles[i] EXCEPT !.fetchedAt = t]]
                    ELSE articles
    IN  IF articles # <<>>
           /\ (ignore_age \/ t - stamped[1].fetchedAt >= TTL_HOURS)
        THEN stamped
        ELSE <<>>

\* _load_from_cache that checks the age whatever ignore_age says
_load_from_cache_always_aged(files, category, ignore_age, t) ==
    LET articles == files[_get_cache_file(category)]
        stamped  == IF articles # <<>> /\ articles[1].fetchedAt = NoTime
                    THEN [i \in 1..Len(articles) |->
                            [articles[i] EXCEPT !.fetchedAt = t]]
                    ELSE articles
    IN  IF articles # <<>> /\ t - stamped[1].fetchedAt < TTL_HOURS
        THEN stamped
        ELSE <<>>

\* _load_from_cache on the files `files`; <<>> is "no usable entry"
_load_from_cache(files, category, ignore_age, t) ==
    LET articles == files[_get_cache_file(category)]
        stamped  == IF articles # <<>> /\ articles[1].fetchedAt = NoTime
                    THEN [i \in 1..Len(articles) |->
                            [articles[i] EXCEPT !.fetchedAt = t]]
                    ELSE articles
    IN  IF articles # <<>>
           /\ (ignore_age \/ t - stamped[1].fetchedAt < TTL_HOURS)
        THEN stamped
        ELSE <<>>

\* _save_to_cache
_save_to_cache(files, articles, category) ==
    [files EXCEPT ![_get_cache_file(category)] = articles]

(***************************************************************************)
(* State                                                                   *)
(***************************************************************************)
VARIABLES
    providers,            \* self.providers: the provider objects, by priority
    available_providers,  \* self.available_providers: indices into providers
    use_cache,            \* self.use_cache
    cache,                \* the files of the cache directory, by cache key
    written,              \* when each cache file was last written, or NoTime
    now,                  \* the wall clock, in hours
    calls,                \* number of fetch_news calls made so far
    called,               \* providers whose fetch_news the last call invoked
    errors,               \* the errors list of the last fetch_news call
    ret                   \* outcome of the last fetch_news call

VARIABLES
    limiter,              \* the RateLimiter object
    threads,              \* the threads calling it: position and locals
    grants,               \* the times of the grants that can still matter
    polls,                \* try_acquire calls completed (calls + 1: more)
    age                   \* seconds since the RateLimiter was constructed

VARIABLES
    memory_cache,         \* EnhancedCache.memory_cache, by key
    disk,                 \* the files <key>.json of cache_dir, by key
    clock,                \* datetime.now(), in hours
    workers,              \* the threads using the cache: position and locals
    shadow,               \* what the last set() of each key was asked to store
    ops,                  \* number of cache operations started so far
    cache_lock,           \* EnhancedCache.lock: the thread holding it, or 0
    returned,             \* per key, the set() call that returned last and the
                          \* values of those that returned before
    began                 \* per thread, what had returned for its key when its
                          \* present call began

VARIABLES
    state,                \* HealthMonitor.state
    health_file,          \* the contents of health_state.json
    recorded,             \* record_health_check was called on this object
    checks,               \* number of HealthMonitor operations so far
    health_op             \* the HealthMonitor method called last

VARIABLES
    monitor_errors,       \* ErrorMonitor.errors
    error_file,           \* the contents of logs/errors.json
    email_configured,     \* SMTP_USER, SMTP_PASS and ALERT_EMAIL are all set
    em_now,               \* datetime.now(), in minutes
    logged,               \* every entry log_error was asked to log, in order
    em_ret                \* outcome of the last ErrorMonitor call

VARIABLES
    article,              \* the article dict handed to CategoryAnalyzer
    category_out          \* what get_category returned for it, once called

VARIABLES
    api_keys,             \* which providers' API key the environment holds
    provider,             \* a provider object constructed on its own
    provider_op,          \* the operation applied to it last
    provider_ops          \* number of operations applied to it so far

managerVars == <<providers, available_providers, use_cache, cache, written,
                 now, calls, called, errors, ret>>

limiterVars == <<limiter, threads, grants, polls, age>>

cacheVars == <<memory_cache, disk, clock, workers, shadow, ops, cache_lock,
               returned, began>>

healthVars == <<state, health_file, recorded, checks, health_op>>

errorVars == <<monitor_errors, error_file, email_configured, em_now, logged,
               em_ret>>

analyzerVars == <<article, category_out>>

providerVars == <<api_keys, provider, provider_op, provider_ops>>

monitorVars == <<healthVars, errorVars, analyzerVars, providerVars>>

vars == <<managerVars, limiterVars, cacheVars, monitorVars>>

\* no HealthMonitor is involved
NoHealth ==
    /\ state = <<>>
    /\ health_file = <<>>
    /\ recorded = FALSE
    /\ checks = 0
    /\ health_op = None

\* no ErrorMonitor is involved
NoErrorMonitor ==
    /\ monitor_errors = <<>>
    /\ error_file = <<>>
    /\ email_configured = FALSE
    /\ em_now = 0
    /\ logged = <<>>
    /\ em_ret = <<>>

\* no article is being classified on its own
NoAnalyzer ==
    /\ article = <<>>
    /\ category_out = None

\* no provider is constructed on its own
NoProvider ==
    /\ api_keys = <<>>
    /\ provider = <<>>
    /\ provider_op = None
    /\ provider_ops = 0

NoMonitors == NoHealth /\ NoErrorMonitor /\ NoAnalyzer /\ NoProvider

\* no EnhancedCache is involved
NoCache ==
    /\ memory_cache = <<>>
    /\ disk = <<>>
    /\ clock = 0
    /\ workers = <<>>
    /\ shadow = <<>>
    /\ ops = 0
    /\ cache_lock = 0
    /\ returned = <<>>
    /\ began = <<>>

\* no RateLimiter is involved
NoLimiter ==
    /\ limiter = <<>>
    /\ threads = <<>>
    /\ grants = <<>>
    /\ polls = 0
    /\ age = 0

NoReturn == [kind |-> "none", category |-> NoCategory, articles |-> <<>>,
             from |-> 0, message |-> None]

\* [p for p in self.providers if p.is_available]
RECURSIVE AvailableFrom(_, _)
AvailableFrom(i, ps) ==
    IF i > Len(ps) THEN <<>>
    ELSE (IF ps[i].is_available THEN <<i>> ELSE <<>>) \o AvailableFrom(i + 1, ps)

\* "; ".join(errors)
RECURSIVE Join(_)
Join(es) ==
    IF es = <<>> THEN ""
    ELSE IF Len(es) = 1 THEN es[1].name \o ": " \o es[1].msg
    ELSE es[1].name \o ": " \o es[1].msg \o "; " \o Join(Tail(es))

(***************************************************************************)
(* NewsProviderManager.fetch_news                                          *)
(***************************************************************************)
\* the except branch of the provider loop, for provider p of machine m
OnException(m, p, pr, error) ==
    LET failed == mark_unavailable(track_request(pr, FALSE, m.t), error)
        ps1    == [m.providers EXCEPT ![p] = failed]
    IN  IF failed.consecutive_failures >= 3
        THEN LET ps2 == [ps1 EXCEPT ![p].is_available = FALSE]
             IN  [m EXCEPT !.providers = ps2,
                           !.available_providers = AvailableFrom(1, ps2),
                           !.errors = Append(@, [name |-> pr.name, msg |-> error])]
        ELSE [m EXCEPT !.providers = ps1,
                       !.errors = Append(@, [name |-> pr.name, msg |-> error])]

\* the `if articles:` branch: track, classify, save, return
OnArticles(m, p, pr, articles, category) ==
    LET tracked    == track_request(pr, TRUE, m.t)
        classified == [i \in 1..Len(articles) |->
                         [articles[i] EXCEPT !.category = get_category(articles[i])]]
    IN  [m EXCEPT !.providers = [@ EXCEPT ![p] = tracked],
                  !.cache = IF m.use_cache
                            THEN _save_to_cache(@, classified, category)
                            ELSE @,
                  !.ret = [kind |-> "provider", category |-> category,
                           articles |-> classified, from |-> p,
                           message |-> None]]

\* the provider loop without the return after the first success: it goes
\* on to the remaining providers and the last success wins
RECURSIVE ProviderLoop_no_return(_, _, _, _, _)
ProviderLoop_no_return(i, rotation, m, category, ups) ==
    IF i > Len(rotation) THEN m
    ELSE
      LET p  == rotation[i]
          r  == ProviderFetchNews(m.providers[p], category, ups[p], m.t)
          m1 == [m EXCEPT !.called = Append(@, p)]
      IN  IF r.raised
          THEN ProviderLoop_no_return(i + 1, rotation,
                            OnException(m1, p, r.provider, r.error),
                            category, ups)
          ELSE IF r.articles # <<>>
          THEN ProviderLoop_no_return(i + 1, rotation,
                            OnArticles(m1, p, r.provider, r.articles, category),
                            category, ups)
          ELSE ProviderLoop_no_return(i + 1, rotation,
                            [m1 EXCEPT !.providers[p] =
                                track_request(r.provider, FALSE, m.t)],
                            category, ups)

\* the provider loop over the list object the for statement took, from
\* position i on; ups[p] is what provider p's upstream does when asked
RECURSIVE ProviderLoop(_, _, _, _, _)
ProviderLoop(i, rotation, m, category, ups) ==
    IF i > Len(rotation) THEN m
    ELSE
      LET p  == rotation[i]
          r  == ProviderFetchNews(m.providers[p], category, ups[p], m.t)
          m1 == [m EXCEPT !.called = Append(@, p)]
      IN  IF r.raised
          THEN ProviderLoop(i + 1, rotation,
                            OnException(m1, p, r.provider, r.error),
                            category, ups)
          ELSE IF r.articles # <<>>
          THEN OnArticles(m1, p, r.provider, r.articles, category)
          ELSE ProviderLoop(i + 1, rotation,
                            [m1 EXCEPT !.providers[p] =
                                track_request(r.provider, FALSE, m.t)],
                            category, ups)

\* the whole of fetch_news on machine m
fetch_news(m, category, ups) ==
    LET cached_articles == IF m.use_cache
                           THEN _load_from_cache(m.cache, category, FALSE, m.t)
                           ELSE <<>>
        m0 == [m EXCEPT !.errors = <<>>, !.called = <<>>, !.ret = NoReturn]
    IN  IF cached_articles # <<>>
        THEN [m0 EXCEPT !.ret = [kind |-> "cache", category |-> category,
                                 articles |-> cached_articles, from |-> 0,
                                 message |-> None]]
        ELSE
          LET m1 == ProviderLoop(1, m0.available_providers, m0, category, ups)
              cached_data == _load_from_cache(m1.cache, category, TRUE, m.t)
          IN  IF m1.ret.kind = "provider" THEN m1
              ELSE IF cached_data # <<>>
              THEN [m1 EXCEPT !.ret = [kind |-> "stale", category |-> category,
                                       articles |-> cached_data, from |-> 0,
                                       message |-> None]]
              ELSE [m1 EXCEPT !.ret = [kind |-> "raise", category |-> category,
                                       articles |-> <<>>, from |-> 0,
                                       message |-> "All news providers failed: "
                                                     \o Join(m1.errors)]]

(***************************************************************************)
(* Inputs of a fetch_news call                                             *)
(***************************************************************************)
\* upstream items explored: the section or theme category the upstream
\* reports (Guardian always uses it, GDELT when no category was requested,
\* NewsAPI never) and the text of the item
UpstreamItems == {[cat |-> "general", text |-> "earnings"]}

Batches == UNION {[1..n -> UpstreamItems] : n \in 1..MaxBatch}

\* what each upstream does when asked: provider `win` (0: nobody) answers
\* with `items`, the ones before it do what `fails` says, the ones after it
\* raise
Upstreams(win, items, fails, msg) ==
    [p \in ProviderIds |->
        IF p = win THEN [kind |-> "ok", items |-> items, msg |-> None]
        ELSE IF win # 0 /\ p > win
        THEN [kind |-> "raise", items |-> <<>>, msg |-> msg]
        ELSE IF fails[p] = "raise"
        THEN [kind |-> "raise", items |-> <<>>, msg |-> msg]
        ELSE [kind |-> "ok", items |-> <<>>, msg |-> None]]

\* the upstream behaviours explored for one fetch_news call
UpstreamChoices ==
    {Upstreams(0, <<>>, fails, msg) :
        fails \in [ProviderIds -> {"raise", "empty"}], msg \in UpstreamErrors}
    \cup
    UNION {{Upstreams(win, items, [p \in ProviderIds |->
                                      IF p < win THEN fails[p] ELSE "raise"], msg) :
               fails \in [1..(win - 1) -> {"raise", "empty"}],
               items \in Batches, msg \in UpstreamErrors} :
           win \in ProviderIds}

(***************************************************************************)
(* Actions                                                                 *)
(***************************************************************************)
Machine ==
    [providers |-> providers, available_providers |-> available_providers,
     use_cache |-> use_cache, cache |-> cache, t |-> now,
     called |-> called, errors |-> errors, ret |-> ret]

\* the state after NewsProviderManager.__init__, on an empty cache directory
Init ==
    /\ \E cached \in BOOLEAN, keys \in [ProviderIds -> BOOLEAN] :
         /\ providers = [p \in ProviderIds |-> NewProvider(PROVIDER_NAMES[p], keys[p])]
         /\ use_cache = cached
         /\ available_providers = AvailableFrom(1, providers)
    /\ cache = [k \in CacheKeys |-> <<>>]
    /\ written = [k \in CacheKeys |-> NoTime]
    /\ now = 0
    /\ calls = 0
    /\ called = <<>>
    /\ errors = <<>>
    /\ ret = NoReturn
    /\ NoLimiter
    /\ NoCache
    /\ NoMonitors

\* the locals and the result of a fetch_news call are gone once the caller
\* goes on to anything else
Returned_to_caller ==
    /\ called' = <<>>
    /\ errors' = <<>>
    /\ ret' = NoReturn

FetchNews ==
    /\ calls < MaxRequests
    /\ \E category \in Categories, ups \in UpstreamChoices :
         LET m == fetch_news(Machine, category, ups)
         IN  /\ providers' = m.providers
             /\ available_providers' = m.available_providers
             /\ cache' = m.cache
             /\ written' = IF m.ret.kind = "provider" /\ use_cache
                           THEN [written EXCEPT ![_get_cache_file(category)] = now]
                           ELSE written
             /\ called' = m.called
             /\ errors' = m.errors
             /\ ret' = m.ret
    /\ calls' = calls + 1
    /\ UNCHANGED <<use_cache, now, limiterVars, cacheVars, monitorVars>>

\* provider.mark_available() called from outside the manager
MarkAvailable ==
    \E p \in ProviderIds :
        /\ providers' = [providers EXCEPT ![p] = mark_available(@)]
        /\ Returned_to_caller
        /\ UNCHANGED <<available_providers, use_cache, cache, written, now, calls,
                       limiterVars, cacheVars, monitorVars>>

\* NewsProviderManager.reset_providers
ResetProviders ==
    /\ providers' = [p \in ProviderIds |-> mark_available(providers[p])]
    /\ available_providers' = AvailableFrom(1, providers')
    /\ Returned_to_caller
    /\ UNCHANGED <<use_cache, cache, written, now, calls, limiterVars,
                   cacheVars, monitorVars>>

\* an hour passes
Tick ==
    /\ now < MaxTime
    /\ now' = now + 1
    /\ Returned_to_caller
    /\ UNCHANGED <<providers, available_providers, use_cache, cache, written,
                   calls, limiterVars, cacheVars, monitorVars>>

Next == FetchNews \/ MarkAvailable \/ ResetProviders \/ Tick

Spec == Init /\ [][Next]_vars

(***************************************************************************)
(* RateLimiter                                                             *)
(*                                                                         *)
(* Times are kept relative to the present instant: time.time() reads 0, a  *)
(* time recorded k seconds ago is -k, and a second passing ages every      *)
(* recorded time by one.  A time that no comparison of the code can tell   *)
(* from an older one any more stays at Oldest.                             *)
(***************************************************************************)
Threads == 1..NThreads

\* RateLimiter.__init__
NewRateLimiter(calls_allowed, time_window) ==
    [calls |-> calls_allowed, time_window |-> time_window,
     timestamps |-> <<>>, lock |-> 0]

\* a thread that is not inside a RateLimiter method; ret is what its last
\* call returned, and its locals are gone (now = 0) once the call is over
IdleThread ==
    [pc |-> "idle", op |-> "none", now |-> 0, ret |-> FALSE, sleep |-> 0]

Oldest(l) == 0 - (l.time_window + MaxHold)

Aged(l, ts) == IF ts - 1 < Oldest(l) THEN Oldest(l) ELSE ts - 1

\* `with self.lock:` can be entered
lock_free_unlocked(l) == TRUE

lock_free(l) == l.lock = 0

\* self.timestamps = [ts for ts in self.timestamps if ts > now - self.time_window]
prune_keeps_all(l, t_now) == l

prune(l, t_now) ==
    [l EXCEPT !.timestamps =
        SelectSeq(@, LAMBDA ts : ts > t_now - l.time_window)]

\* if len(self.timestamps) < self.calls
admit_one_more(l) == Len(l.timestamps) <= l.calls

admit(l) == Len(l.timestamps) < l.calls

\* no NewsProviderManager is involved
NoManager ==
    /\ providers = <<>>
    /\ available_providers = <<>>
    /\ use_cache = FALSE
    /\ cache = <<>>
    /\ written = <<>>
    /\ now = 0
    /\ calls = 0
    /\ called = <<>>
    /\ errors = <<>>
    /\ ret = NoReturn

\* a fresh RateLimiter(calls, time_window) shared by the threads
InitRateLimiter ==
    /\ NoManager
    /\ NoCache
    /\ NoMonitors
    /\ \E c \in 1..MaxCalls, w \in 1..MaxWindow : limiter = NewRateLimiter(c, w)
    /\ threads = [t \in Threads |-> IdleThread]
    /\ grants = <<>>
    /\ polls = 0
    /\ age = 0

\* a thread calls try_acquire() or wait_if_needed()
RL_Call ==
    \E t \in Threads, op \in {"try_acquire", "wait_if_needed"} :
        /\ threads[t].pc = "idle"
        /\ threads' = [threads EXCEPT ![t].pc = "lock", ![t].op = op,
                                      ![t].ret = FALSE]
        /\ UNCHANGED <<limiter, grants, polls, age, managerVars, cacheVars, monitorVars>>

\* try_acquire: with self.lock
RL_Lock ==
    \E t \in Threads :
        /\ threads[t].pc = "lock"
        /\ lock_free(limiter)
        /\ limiter' = [limiter EXCEPT !.lock = t]
        /\ threads' = [threads EXCEPT ![t].pc = "prune"]
        /\ UNCHANGED <<grants, polls, age, managerVars, cacheVars, monitorVars>>

\* try_acquire: now = time.time() and the pruning of the timestamps
RL_Prune ==
    \E t \in Threads :
        /\ threads[t].pc = "prune"
        /\ limiter' = prune(limiter, 0)
        /\ threads' = [threads EXCEPT ![t].pc = "check", ![t].now = 0]
        /\ UNCHANGED <<grants, polls, age, managerVars, cacheVars, monitorVars>>

\* one more try_acquire call is over
Polled == IF polls <= limiter.calls THEN polls + 1 ELSE polls

\* try_acquire: the test of the limit; on a denial the return, which
\* leaves the lock, and a denied wait_if_needed goes to sleep for a second
RL_Check ==
    \E t \in Threads :
        /\ threads[t].pc = "check"
        /\ IF admit(limiter)
           THEN /\ threads' = [threads EXCEPT ![t].pc = "append"]
                /\ UNCHANGED <<limiter, polls>>
           ELSE LET back == threads[t].op = "try_acquire"
                IN  /\ limiter' = [limiter EXCEPT !.lock = 0]
                    /\ polls' = Polled
                    /\ threads' = [threads EXCEPT
                          ![t].ret = FALSE,
                          ![t].now = 0,
                          ![t].op = IF back THEN "none" ELSE @,
                          ![t].pc = IF back THEN "idle" ELSE "sleep",
                          ![t].sleep = IF back THEN 0 ELSE 1]
        /\ UNCHANGED <<grants, age, managerVars, cacheVars, monitorVars>>

\* try_acquire: self.timestamps.append(now) and return True, which leaves
\* the lock; wait_if_needed returns as well
RL_Append ==
    \E t \in Threads :
        /\ threads[t].pc = "append"
        /\ limiter' = [limiter EXCEPT !.timestamps = Append(@, threads[t].now),
                                      !.lock = 0]
        /\ grants' = Append(grants, threads[t].now)
        /\ polls' = Polled
        /\ threads' = [threads EXCEPT
              ![t].ret = TRUE,
              ![t].now = 0,
              ![t].op = "none",
              ![t].pc = "idle"]
        /\ UNCHANGED <<age, managerVars, cacheVars, monitorVars>>

\* wait_if_needed: time.sleep(1) is over, the loop polls again
RL_Wake ==
    \E t \in Threads :
        /\ threads[t].pc = "sleep"
        /\ threads[t].sleep = 0
        /\ threads' = [threads EXCEPT ![t].pc = "lock"]
        /\ UNCHANGED <<limiter, grants, polls, age, managerVars, cacheVars, monitorVars>>

\* a second passes; at most MaxHold of them while a thread is between its
\* reading of the time and its return
RL_Tick ==
    /\ \A t \in Threads :
          threads[t].pc \in {"check", "append"} => threads[t].now > 0 - MaxHold
    /\ limiter' = [limiter EXCEPT !.timestamps =
                      [i \in 1..Len(@) |-> Aged(limiter, @[i])]]
    /\ threads' = [t \in Threads |->
                      [threads[t] EXCEPT
                          !.now = IF threads[t].pc \in {"check", "append"}
                                  THEN @ - 1 ELSE @,
                          !.sleep = IF @ > 0 THEN @ - 1 ELSE 0]]
    /\ grants' = LET older == [i \in 1..Len(grants) |-> grants[i] - 1]
                 IN  SelectSeq(older, LAMBDA g : g > Oldest(limiter))
    /\ age' = IF age < limiter.time_window THEN age + 1 ELSE age
    /\ UNCHANGED <<polls, managerVars, cacheVars, monitorVars>>

NextRateLimiter ==
    RL_Call \/ RL_Lock \/ RL_Prune \/ RL_Check \/ RL_Append \/ RL_Wake
    \/ RL_Tick

SpecRateLimiter == InitRateLimiter /\ [][NextRateLimiter]_vars

\* thread t takes the next step of the method it is in
Proceeds(t) ==
    /\ RL_Lock \/ RL_Prune \/ RL_Check \/ RL_Append \/ RL_Wake
    /\ threads'[t] # threads[t]

\* time keeps advancing, the scheduler runs every thread that can run, and
\* a thread waiting for the lock gets it if it is free again and again
\* (threading.Lock promises no order among the waiting threads); nothing
\* obliges a thread to call the limiter
SpecRateLimiterFair ==
    /\ SpecRateLimiter
    /\ WF_vars(RL_Tick)
    /\ \A t \in Threads : SF_vars(Proceeds(t))

(***************************************************************************)
(* EnhancedCache                                                           *)
(***************************************************************************)
Keys == {"k1", "k2"}

\* values handed to set(): a string, and a tuple, which JSON stores as a list
Values == {"v1", "(1, 2)"}

\* set() called without expiry
NoTTL == -1

TTLs == {NoTTL} \cup 0..MaxTTL

DEFAULT_EXPIRY_HOURS == 1

\* json.dump of a value handed to set(), and json.load of that text
json_dump(value) == IF value = "(1, 2)" THEN "[1, 2]" ELSE "\"" \o value \o "\""

json_load(text) ==
    CASE text = "[1, 2]" -> "[1, 2]"
      [] text = "\"v1\"" -> "v1"

NoEntry == [present |-> FALSE, value |-> None, expiry |-> 0]

NoFile == [state |-> "absent", value |-> None, expiry |-> 0]

\* a file that open(cache_file, 'w') has truncated and json.dump not filled
TruncatedFile == [state |-> "partial", value |-> None, expiry |-> 0]

NewEnhancedCache == [k \in Keys |-> NoEntry]

\* datetime.now() + (expiry or self.default_expiry)
expiry_time(t, expiry) ==
    t + (IF expiry = NoTTL \/ expiry = 0 THEN DEFAULT_EXPIRY_HOURS ELSE expiry)

\* get: the memory tier, under the lock
get_memory(mc, key, t) ==
    IF ~mc[key].present
    THEN [memory_cache |-> mc, hit |-> FALSE, value |-> None]
    ELSE IF t < mc[key].expiry
    THEN [memory_cache |-> mc, hit |-> TRUE, value |-> mc[key].value]
    ELSE [memory_cache |-> [mc EXCEPT ![key] = NoEntry], hit |-> FALSE,
          value |-> None]

\* get: what was read from the file, promoted or removed
use_data_never_expired(mc, d, key, data, t) ==
    [memory_cache |-> [mc EXCEPT ![key] =
                          [present |-> TRUE, value |-> json_load(data.value),
                           expiry |-> data.expiry]],
     disk |-> d, ret |-> json_load(data.value)]

use_data(mc, d, key, data, t) ==
    IF data.expiry > t
    THEN [memory_cache |-> [mc EXCEPT ![key] =
                               [present |-> TRUE, value |-> json_load(data.value),
                                expiry |-> data.expiry]],
          disk |-> d, ret |-> json_load(data.value)]
    ELSE [memory_cache |-> mc,
          disk |-> [d EXCEPT ![key] = NoFile],
          ret |-> None]

\* set: the memory tier, under the lock
set_memory(mc, key, value, e) ==
    [mc EXCEPT ![key] = [present |-> TRUE, value |-> value, expiry |-> e]]

\* set: open(cache_file, 'w'), then json.dump into it
open_w(d, key) == [d EXCEPT ![key] = TruncatedFile]

dump(d, key, value, e) ==
    [d EXCEPT ![key] = [state |-> "complete", value |-> json_dump(value),
                        expiry |-> e]]

\* clear_expired: the memory tier, under the lock
clear_memory(mc, t) ==
    [k \in Keys |-> IF mc[k].present /\ mc[k].expiry < t THEN NoEntry ELSE mc[k]]

\* clear_expired: one file of the listing, as it was read
clear_file(d, key, data, t) ==
    IF data.state = "complete" /\ data.expiry < t
    THEN [d EXCEPT ![key] = NoFile]
    ELSE d

\* the whole of get(key) by a single caller
get(c, key, t) ==
    LET m == get_memory(c.memory_cache, key, t)
    IN  IF m.hit
        THEN [memory_cache |-> m.memory_cache, disk |-> c.disk, ret |-> m.value]
        ELSE IF c.disk[key].state = "complete"
        THEN use_data(m.memory_cache, c.disk, key, c.disk[key], t)
        ELSE [memory_cache |-> m.memory_cache, disk |-> c.disk, ret |-> None]

\* the whole of set(key, value, expiry) by a single caller
set(c, key, value, expiry, t) ==
    LET e == expiry_time(t, expiry)
    IN  [memory_cache |-> set_memory(c.memory_cache, key, value, e),
         disk |-> dump(open_w(c.disk, key), key, value, e)]

\* the whole of clear_expired() by a single caller
RECURSIVE clear_files(_, _, _)
clear_files(d, keys, t) ==
    IF keys = {} THEN d
    ELSE LET k == CHOOSE x \in keys : TRUE
         IN  clear_files(clear_file(d, k, d[k], t), keys \ {k}, t)

clear_expired(c, t) ==
    [memory_cache |-> clear_memory(c.memory_cache, t),
     disk |-> clear_files(c.disk, {k \in Keys : c.disk[k].state # "absent"}, t)]

\* a thread that is not inside an EnhancedCache method; op, key and ret are
\* those of its last call
IdleWorker ==
    [pc |-> "idle", op |-> "none", key |-> "k1", value |-> None, expiry |-> 0,
     data |-> NoFile, now |-> 0, ret |-> None, todo |-> <<>>]

Workers == 1..NWorkers

NeverSet == [set |-> FALSE, here |-> FALSE, value |-> None, expiry |-> 0]

\* when the entry that set(key, value, expiry) at time t asks for expires
AskedExpiry(t, expiry) ==
    t + (IF expiry = NoTTL THEN DEFAULT_EXPIRY_HOURS ELSE expiry)

TheCache == [memory_cache |-> memory_cache, disk |-> disk]

\* no set(key) has returned: `older` are the values of the calls that had
\* returned when the last one was made, `all` those of all that returned
NoneReturned == [set |-> FALSE, value |-> None, expiry |-> 0, older |-> {},
                 all |-> {}]

\* a call notes whether a set of its key had returned (`after`, for a get)
\* and the values that had been set (`older`, for a set)
NoneBegan == [after |-> FALSE, older |-> {}]

\* EnhancedCache(cache_dir) on a new, empty directory
InitCache ==
    /\ NoManager
    /\ NoLimiter
    /\ NoMonitors
    /\ memory_cache = NewEnhancedCache
    /\ disk = [k \in Keys |-> NoFile]
    /\ clock = 0
    /\ workers = [w \in Workers |-> IdleWorker]
    /\ shadow = [k \in Keys |-> NeverSet]
    /\ ops = 0
    /\ cache_lock = 0
    /\ returned = [k \in Keys |-> NoneReturned]
    /\ began = [w \in Workers |-> NoneBegan]

Outside == <<managerVars, limiterVars, monitorVars>>

\* what the steps outside `with self.lock` and the calls of a single caller
\* leave alone
Others == <<Outside, cache_lock, returned, began>>

\* cache.set(key, value, expiry) by the only caller
EC_Set ==
    /\ ops < MaxOps
    /\ \E key \in Keys, value \in Values, expiry \in TTLs :
         LET c == set(TheCache, key, value, expiry, clock)
         IN  /\ memory_cache' = c.memory_cache
             /\ disk' = c.disk
             /\ shadow' = [shadow EXCEPT ![key] =
                              [set |-> TRUE, here |-> TRUE, value |-> value,
                               expiry |-> AskedExpiry(clock, expiry)]]
             /\ workers' = [workers EXCEPT ![1] =
                               [IdleWorker EXCEPT !.op = "set", !.key = key]]
    /\ ops' = ops + 1
    /\ UNCHANGED <<clock, Others>>

\* cache.get(key) by the only caller
EC_Get ==
    /\ ops < MaxOps
    /\ \E key \in Keys :
         LET c == get(TheCache, key, clock)
         IN  /\ memory_cache' = c.memory_cache
             /\ disk' = c.disk
             /\ workers' = [workers EXCEPT ![1] =
                               [IdleWorker EXCEPT !.op = "get", !.key = key,
                                                  !.ret = c.ret]]
    /\ ops' = ops + 1
    /\ UNCHANGED <<clock, shadow, Others>>

\* cache.clear_expired() by the only caller
EC_ClearExpired ==
    /\ ops < MaxOps
    /\ LET c == clear_expired(TheCache, clock)
       IN  /\ memory_cache' = c.memory_cache
           /\ disk' = c.disk
    /\ workers' = [workers EXCEPT ![1] = [IdleWorker EXCEPT !.op = "clear_expired"]]
    /\ ops' = ops + 1
    /\ UNCHANGED <<clock, shadow, Others>>

\* the process ends and a new one opens EnhancedCache on the same directory
EC_Restart ==
    /\ \A w \in Workers : workers[w].pc = "idle"
    /\ \E k \in Keys : memory_cache[k].present
    /\ memory_cache' = NewEnhancedCache
    /\ shadow' = [k \in Keys |-> [shadow[k] EXCEPT !.here = FALSE]]
    /\ workers' = [w \in Workers |-> IdleWorker]
    /\ began' = [w \in Workers |-> NoneBegan]
    /\ UNCHANGED <<disk, clock, ops, cache_lock, returned, Outside>>

\* an hour passes
EC_Tick ==
    /\ clock < MaxClock
    /\ clock' = clock + 1
    /\ UNCHANGED <<memory_cache, disk, workers, shadow, ops, Others>>

NextCache == EC_Set \/ EC_Get \/ EC_ClearExpired \/ EC_Restart \/ EC_Tick

SpecCache == InitCache /\ [][NextCache]_vars

(***************************************************************************)
(* EnhancedCache used by several threads: each statement that touches the  *)
(* memory tier or the directory is a step of its own; the statements under *)
(* `with self.lock` are one step, taken after the lock was acquired        *)
(***************************************************************************)
\* a worker goes back to its caller with `result`
Back(w, result) ==
    [IdleWorker EXCEPT !.op = workers[w].op, !.key = workers[w].key,
                       !.value = workers[w].value, !.expiry = workers[w].expiry,
                       !.ret = result]

\* os.listdir(self.cache_dir)
RECURSIVE listdir(_, _)
listdir(d, keys) ==
    IF keys = {} THEN <<>>
    ELSE LET k == CHOOSE x \in keys : TRUE
         IN  (IF d[k].state # "absent" THEN <<k>> ELSE <<>>)
             \o listdir(d, keys \ {k})

\* a thread calls get(key), set(key, value, expiry) or clear_expired()
CT_Call ==
    /\ ops < MaxOps
    /\ \E w \in Workers :
         /\ workers[w].pc = "idle"
         /\ \/ \E key \in Keys :
                 /\ workers' = [workers EXCEPT ![w] =
                      [IdleWorker EXCEPT !.pc = "get_memory", !.op = "get",
                                         !.key = key]]
                 /\ began' = [began EXCEPT ![w] =
                                [after |-> returned[key].set, older |-> {}]]
            \/ \E key \in Keys, value \in Values, expiry \in TTLs :
                 /\ workers' = [workers EXCEPT ![w] =
                      [IdleWorker EXCEPT !.pc = "set_memory", !.op = "set",
                                         !.key = key, !.value = value,
                                         !.expiry = expiry_time(clock, expiry)]]
                 /\ began' = [began EXCEPT ![w] =
                                [after |-> FALSE, older |-> returned[key].all]]
            \/ /\ workers' = [workers EXCEPT ![w] =
                      [IdleWorker EXCEPT !.pc = "clear_memory",
                                         !.op = "clear_expired"]]
                 /\ began' = [began EXCEPT ![w] = NoneBegan]
    /\ ops' = ops + 1
    /\ UNCHANGED <<memory_cache, disk, clock, shadow, cache_lock, returned,
                   Outside>>

\* what a thread noted at its call is dropped when the call returns
BeganAfter(w) ==
    began' = [began EXCEPT ![w] =
                 IF workers'[w].pc = "idle" THEN NoneBegan ELSE @]

\* the statements under `with self.lock`
LockedSteps == {"get_memory", "set_memory", "clear_memory"}

\* `with self.lock:` is entered
CT_Acquire ==
    \E w \in Workers :
        /\ workers[w].pc \in LockedSteps
        /\ cache_lock = 0
        /\ cache_lock' = w
        /\ UNCHANGED <<memory_cache, disk, clock, workers, shadow, ops, returned,
                       began, Outside>>

\* get: the memory tier, under the lock
CT_GetMemory ==
    \E w \in Workers :
        /\ workers[w].pc = "get_memory"
        /\ cache_lock = w
        /\ cache_lock' = 0
        /\ LET m == get_memory(memory_cache, workers[w].key, clock)
           IN  /\ memory_cache' = m.memory_cache
               /\ workers' = [workers EXCEPT ![w] =
                     IF m.hit THEN Back(w, m.value)
                     ELSE [@ EXCEPT !.pc = "get_file"]]
        /\ BeganAfter(w)
        /\ UNCHANGED <<disk, clock, shadow, ops, returned, Outside>>

\* get: os.path.exists, open and json.load of the file; a file that is
\* not there or does not parse ends the call with None
CT_GetFile ==
    \E w \in Workers :
        /\ workers[w].pc = "get_file"
        /\ workers' = [workers EXCEPT ![w] =
              IF disk[workers[w].key].state = "complete"
              THEN [@ EXCEPT !.pc = "get_use", !.data = disk[workers[w].key]]
              ELSE Back(w, None)]
        /\ BeganAfter(w)
        /\ UNCHANGED <<memory_cache, disk, clock, shadow, ops, cache_lock,
                       returned, Outside>>

\* get: the expiry test on what was read, then the promotion or os.remove
CT_GetUse ==
    \E w \in Workers :
        /\ workers[w].pc = "get_use"
        /\ LET u == use_data(memory_cache, disk, workers[w].key,
                             workers[w].data, clock)
           IN  /\ memory_cache' = u.memory_cache
               /\ disk' = u.disk
               /\ workers' = [workers EXCEPT ![w] = Back(w, u.ret)]
        /\ BeganAfter(w)
        /\ UNCHANGED <<clock, shadow, ops, cache_lock, returned, Outside>>

\* set: the memory tier, under the lock
CT_SetMemory ==
    \E w \in Workers :
        /\ workers[w].pc = "set_memory"
        /\ cache_lock = w
        /\ cache_lock' = 0
        /\ memory_cache' = set_memory(memory_cache, workers[w].key,
                                      workers[w].value, workers[w].expiry)
        /\ workers' = [workers EXCEPT ![w].pc = "set_open"]
        /\ UNCHANGED <<disk, clock, shadow, ops, returned, began, Outside>>

\* set: open(cache_file, 'w') truncates the file
CT_SetOpen ==
    \E w \in Workers :
        /\ workers[w].pc = "set_open"
        /\ disk' = open_w(disk, workers[w].key)
        /\ workers' = [workers EXCEPT ![w].pc = "set_dump"]
        /\ UNCHANGED <<memory_cache, clock, shadow, ops, Others>>

\* set: json.dump and the close that writes the text at the start of the
\* file; the tail of a longer text that another writer has put there since
\* the open stays behind it, and the file does not parse
CT_SetDump ==
    \E w \in Workers :
        /\ workers[w].pc = "set_dump"
        /\ LET k == workers[w].key
           IN  disk' = IF /\ disk[k].state = "complete"
                          /\ Len(json_dump(workers[w].value)) < Len(disk[k].value)
                       THEN [disk EXCEPT ![k] = TruncatedFile]
                       ELSE dump(disk, k, workers[w].value, workers[w].expiry)
        /\ workers' = [workers EXCEPT ![w] = Back(w, None)]
        /\ returned' = [returned EXCEPT ![workers[w].key] =
                           [set |-> TRUE, value |-> workers[w].value,
                            expiry |-> workers[w].expiry,
                            older |-> began[w].older,
                            all |-> @.all \cup {workers[w].value}]]
        /\ began' = [u \in Workers |->
                        IF u = w THEN NoneBegan
                        ELSE IF workers[u].key = workers[w].key
                        THEN [began[u] EXCEPT !.after = FALSE]
                        ELSE began[u]]
        /\ UNCHANGED <<memory_cache, clock, shadow, ops, cache_lock, Outside>>

\* clear_expired: now = datetime.now() and the memory tier, under the lock
CT_ClearMemory ==
    \E w \in Workers :
        /\ workers[w].pc = "clear_memory"
        /\ cache_lock = w
        /\ cache_lock' = 0
        /\ memory_cache' = clear_memory(memory_cache, clock)
        /\ workers' = [workers EXCEPT ![w].pc = "clear_list", ![w].now = clock]
        /\ UNCHANGED <<disk, clock, shadow, ops, returned, began, Outside>>

\* clear_expired: os.listdir
CT_ClearList ==
    \E w \in Workers :
        /\ workers[w].pc = "clear_list"
        /\ LET names == listdir(disk, Keys)
           IN  workers' = [workers EXCEPT ![w] =
                  IF names = <<>> THEN Back(w, None)
                  ELSE [@ EXCEPT !.pc = "clear_read", !.todo = names]]
        /\ BeganAfter(w)
        /\ UNCHANGED <<memory_cache, disk, clock, shadow, ops, cache_lock,
                       returned, Outside>>

\* what is left of the listing after its first file
Rest(w) ==
    IF Len(workers[w].todo) = 1 THEN Back(w, None)
    ELSE [workers[w] EXCEPT !.pc = "clear_read", !.todo = Tail(@),
                            !.data = NoFile]

\* clear_expired: open and json.load of the next file of the listing, and
\* the expiry test; a file that is gone or does not parse is skipped
CT_ClearRead ==
    \E w \in Workers :
        /\ workers[w].pc = "clear_read"
        /\ LET f == disk[Head(workers[w].todo)]
           IN  workers' = [workers EXCEPT ![w] =
                  IF f.state = "complete" /\ f.expiry < workers[w].now
                  THEN [@ EXCEPT !.pc = "clear_remove", !.data = f]
                  ELSE Rest(w)]
        /\ BeganAfter(w)
        /\ UNCHANGED <<memory_cache, disk, clock, shadow, ops, cache_lock,
                       returned, Outside>>

\* clear_expired: os.remove(filepath)
CT_ClearRemove ==
    \E w \in Workers :
        /\ workers[w].pc = "clear_remove"
        /\ disk' = clear_file(disk, Head(workers[w].todo), workers[w].data,
                              workers[w].now)
        /\ workers' = [workers EXCEPT ![w] = Rest(w)]
        /\ BeganAfter(w)
        /\ UNCHANGED <<memory_cache, clock, shadow, ops, cache_lock, returned,
                       Outside>>

NextCacheThreads ==
    \/ CT_Call
    \/ CT_Acquire
    \/ CT_GetMemory \/ CT_GetFile \/ CT_GetUse
    \/ CT_SetMemory \/ CT_SetOpen \/ CT_SetDump
    \/ CT_ClearMemory \/ CT_ClearList \/ CT_ClearRead \/ CT_ClearRemove
    \/ EC_Restart
    \/ EC_Tick

SpecCacheThreads == InitCache /\ [][NextCacheThreads]_vars

(***************************************************************************)
(* HealthMonitor                                                           *)
(*                                                                         *)
(* The isoformat timestamps of last_check and last_success are written     *)
(* "iso": no statement of the class compares them.                         *)
(***************************************************************************)
Components == {"news_api"}

ComponentStatuses == {"healthy", "error"}

CheckDetails == {None, "details"}

\* the dict _load_state returns when there is no readable file
InitialState ==
    [status |-> "initializing", last_check |-> None, last_success |-> None,
     consecutive_failures |-> 0, total_success |-> 0, total_failures |-> 0,
     component_status |-> [c \in Components |-> None],
     last_check_details |-> None]

NoHealthFile == [exists |-> FALSE, state |-> InitialState]

_load_state(file) == IF file.exists THEN file.state ELSE InitialState

_save_state(st) == [exists |-> TRUE, state |-> st]

\* update_component: the dict after the assignment
update_component(st, component, status) ==
    [st EXCEPT !.component_status[component] = status]

\* the derivation of the overall status with the degraded band one short
status_of_short_band(consecutive_failures) ==
    IF consecutive_failures = 0 THEN "healthy"
    ELSE IF consecutive_failures < 3 THEN "degraded"
    ELSE "failing"

\* the overall status record_health_check derives
status_of(consecutive_failures) ==
    IF consecutive_failures = 0 THEN "healthy"
    ELSE IF consecutive_failures <= 3 THEN "degraded"
    ELSE "failing"

\* record_health_check: the dict after the call
record_health_check(st, success, details) ==
    LET counted == IF success
                   THEN [st EXCEPT !.last_check = "iso", !.last_success = "iso",
                                   !.consecutive_failures = 0,
                                   !.total_success = @ + 1]
                   ELSE [st EXCEPT !.last_check = "iso",
                                   !.consecutive_failures = @ + 1,
                                   !.total_failures = @ + 1]
        derived == [counted EXCEPT
                       !.status = status_of(counted.consecutive_failures)]
    IN  IF details # None
        THEN [derived EXCEPT !.last_check_details = details]
        ELSE derived

\* HealthMonitor() in a directory without a state file
InitHealth ==
    /\ NoManager
    /\ NoLimiter
    /\ NoCache
    /\ NoErrorMonitor
    /\ NoAnalyzer
    /\ NoProvider
    /\ health_file = NoHealthFile
    /\ state = _load_state(health_file)
    /\ recorded = FALSE
    /\ checks = 0
    /\ health_op = None

NotHealth == <<managerVars, limiterVars, cacheVars, errorVars, analyzerVars,
               providerVars>>

HM_RecordHealthCheck ==
    /\ checks < MaxChecks
    /\ \E success \in BOOLEAN, details \in CheckDetails :
         /\ state' = record_health_check(state, success, details)
         /\ health_file' = _save_state(state')
    /\ recorded' = TRUE
    /\ checks' = checks + 1
    /\ health_op' = "record_health_check"
    /\ UNCHANGED NotHealth

HM_UpdateComponent ==
    /\ checks < MaxChecks
    /\ \E component \in Components, status \in ComponentStatuses :
         /\ state' = update_component(state, component, status)
         /\ health_file' = _save_state(state')
    /\ checks' = checks + 1
    /\ health_op' = "update_component"
    /\ UNCHANGED <<recorded, NotHealth>>

\* the process ends and a new HealthMonitor() reads the file
HM_Restart ==
    /\ state' = _load_state(health_file)
    /\ recorded' = FALSE
    /\ health_op' = None
    /\ UNCHANGED <<health_file, checks, NotHealth>>

NextHealth == HM_RecordHealthCheck \/ HM_UpdateComponent \/ HM_Restart

SpecHealth == InitHealth /\ [][NextHealth]_vars

(***************************************************************************)
(* ErrorMonitor.  Time is counted in minutes and passes TICK_MINUTES at a  *)
(* time.                                                                   *)
(***************************************************************************)
ALERT_THRESHOLD == 5

TIME_WINDOW_MINUTES == 30

TICK_MINUTES == 15

ErrorTypes == {"network", "parse"}

\* self.time_window.minutes: a timedelta has days, seconds and microseconds
\* only, so the attribute access raises AttributeError
time_window_minutes == "AttributeError"

NoErrorFile == [exists |-> FALSE, entries |-> <<>>]

NoCall == [op |-> None, raised |-> FALSE, alert |-> "none",
           errors_at_alert |-> <<>>, file_at_alert |-> NoErrorFile,
           summary |-> None]

_load_errors(file) == IF file.exists THEN file.entries ELSE <<>>

_save_errors(entries) == [exists |-> TRUE, entries |-> entries]

\* _clean_old_errors that also keeps the entries logged exactly one window ago
_clean_old_errors_inclusive(entries, t) ==
    SelectSeq(entries, LAMBDA error : error.timestamp >= t - TIME_WINDOW_MINUTES)

\* _clean_old_errors: the entries newer than the cutoff
_clean_old_errors(entries, t) ==
    SelectSeq(entries, LAMBDA error : error.timestamp > t - TIME_WINDOW_MINUTES)

\* _send_alert without its try/except: an error while building or sending
\* the message reaches the caller
_send_alert_no_except(configured, smtp_up) ==
    IF ~configured THEN "missing"
    ELSE IF time_window_minutes = "AttributeError" THEN "raise"
    ELSE IF smtp_up = "raise" THEN "raise"
    ELSE "sent"

\* _send_alert: how the notification ended ("raise": an exception left the
\* method); smtp_up is what the mail server does if it is contacted
_send_alert(configured, smtp_up) ==
    IF ~configured THEN "missing"
    ELSE IF time_window_minutes = "AttributeError" THEN "error"
    ELSE IF smtp_up = "raise" THEN "error"
    ELSE "sent"

\* log_error on the monitor m = [errors, file, configured]
log_error(m, error_type, message, smtp_up, t) ==
    LET cleaned  == _clean_old_errors(m.errors, t)
        appended == Append(cleaned, [timestamp |-> t, type |-> error_type,
                                     message |-> message])
        saved    == _save_errors(appended)
        alert    == _send_alert(m.configured, smtp_up)
    IN  [errors |-> appended,
         file   |-> saved,
         ret    |-> IF Len(appended) >= ALERT_THRESHOLD
                    THEN [NoCall EXCEPT !.op = "log_error",
                                        !.raised = (alert = "raise"),
                                        !.alert = alert,
                                        !.errors_at_alert = appended,
                                        !.file_at_alert = saved]
                    ELSE [NoCall EXCEPT !.op = "log_error"]]

\* error_types of get_error_summary, as a function on the types present
Distribution(entries) ==
    [ty \in {entries[i].type : i \in 1..Len(entries)} |->
        Cardinality({i \in 1..Len(entries) : entries[i].type = ty})]

\* get_error_summary on the monitor m: the list is cleaned in memory, and the
\* summary dict is never built because its last item raises
get_error_summary(m, t) ==
    LET cleaned == _clean_old_errors(m.errors, t)
    IN  [errors |-> cleaned,
         file   |-> m.file,
         ret    |-> IF time_window_minutes = "AttributeError"
                    THEN [NoCall EXCEPT !.op = "get_error_summary",
                                        !.raised = TRUE]
                    ELSE [NoCall EXCEPT !.op = "get_error_summary",
                             !.summary =
                                [total_errors |-> Len(cleaned),
                                 unique_error_types |->
                                    Cardinality(DOMAIN Distribution(cleaned)),
                                 error_distribution |-> Distribution(cleaned)]]]

Monitor == [errors |-> monitor_errors, file |-> error_file,
            configured |-> email_configured]

\* ErrorMonitor() where no logs/errors.json exists yet
InitErrorMonitor ==
    /\ NoManager
    /\ NoLimiter
    /\ NoCache
    /\ NoHealth
    /\ NoAnalyzer
    /\ NoProvider
    /\ error_file = NoErrorFile
    /\ monitor_errors = _load_errors(error_file)
    /\ email_configured \in BOOLEAN
    /\ em_now = 0
    /\ logged = <<>>
    /\ em_ret = NoCall

NotErrorMonitor == <<managerVars, limiterVars, cacheVars, healthVars,
                     analyzerVars, providerVars>>

EM_LogError ==
    /\ Len(logged) < MaxLogs
    /\ \E error_type \in ErrorTypes, smtp_up \in {"ok", "raise"} :
         LET m == log_error(Monitor, error_type, "m", smtp_up, em_now)
         IN  /\ monitor_errors' = m.errors
             /\ error_file' = m.file
             /\ em_ret' = m.ret
             /\ logged' = Append(logged, [timestamp |-> em_now,
                                          type |-> error_type, message |-> "m"])
    /\ UNCHANGED <<email_configured, em_now, NotErrorMonitor>>

EM_GetErrorSummary ==
    /\ LET m == get_error_summary(Monitor, em_now)
       IN  /\ monitor_errors' = m.errors
           /\ em_ret' = m.ret
    /\ UNCHANGED <<error_file, email_configured, em_now, logged, NotErrorMonitor>>

\* the process ends and a new ErrorMonitor() reads the file
EM_Restart ==
    /\ monitor_errors' = _load_errors(error_file)
    /\ em_ret' = NoCall
    /\ UNCHANGED <<error_file, email_configured, em_now, logged, NotErrorMonitor>>

EM_Tick ==
    /\ em_now < MaxErrTicks * TICK_MINUTES
    /\ em_now' = em_now + TICK_MINUTES
    /\ em_ret' = NoCall
    /\ UNCHANGED <<monitor_errors, error_file, email_configured, logged,
                   NotErrorMonitor>>

NextErrorMonitor == EM_LogError \/ EM_GetErrorSummary \/ EM_Restart \/ EM_Tick

SpecErrorMonitor == InitErrorMonitor /\ [][NextErrorMonitor]_vars

(***************************************************************************)
(* CategoryAnalyzer.get_category on one article                            *)
(***************************************************************************)
\* the category strings a provider may hand over (None: no category key)
ProviderCategories ==
    {None, "", "general", "technology", "science", "health", "sports",
     "business", "markets", "politics", "entertainment", "world", "opinion",
     "tech", "sci", "sport", "finance", "financial", "market", "stock",
     "Tech ", "biotech", "lifestyle"}

\* the texts (title, description and content joined), by their match counts
Texts == {"plain", "chip", "earnings", "startup", "match"}

InitAnalyzer ==
    /\ NoManager
    /\ NoLimiter
    /\ NoCache
    /\ NoHealth
    /\ NoErrorMonitor
    /\ NoProvider
    /\ \E c \in ProviderCategories, text \in Texts :
         article = [category |-> c, text |-> text]
    /\ category_out = None

NotAnalyzer == <<managerVars, limiterVars, cacheVars, healthVars, errorVars,
                 providerVars>>

\* article['category'] = CategoryAnalyzer.get_category(article)
CA_GetCategory ==
    /\ category_out = None
    /\ category_out' = get_category(article)
    /\ UNCHANGED <<article, NotAnalyzer>>

NextAnalyzer == CA_GetCategory

SpecAnalyzer == InitAnalyzer /\ [][NextAnalyzer]_vars

(***************************************************************************)
(* One provider object: construction under an environment, then the        *)
(* lifecycle methods of NewsProvider                                       *)
(***************************************************************************)
\* GUARDIAN_API_KEY and NEWS_API_KEY are set or not; GDELT needs no key
Environments == [ProviderIds -> BOOLEAN]

InitProvider ==
    /\ NoManager
    /\ NoLimiter
    /\ NoCache
    /\ NoHealth
    /\ NoErrorMonitor
    /\ NoAnalyzer
    /\ api_keys \in Environments
    /\ \E p \in ProviderIds : provider = NewProvider(PROVIDER_NAMES[p], api_keys[p])
    /\ provider_op = "__init__"
    /\ provider_ops = 0

NotProvider == <<managerVars, limiterVars, cacheVars, healthVars, errorVars,
                 analyzerVars>>

\* GuardianNewsProvider(), GdeltNewsProvider() or NewsAPIProvider()
PV_Construct ==
    /\ \E p \in ProviderIds :
         provider' = NewProvider(PROVIDER_NAMES[p], api_keys[p])
    /\ provider_op' = "__init__"
    /\ provider_ops' = 0
    /\ UNCHANGED <<api_keys, NotProvider>>

\* the environment changes before the next construction
PV_SetEnv ==
    /\ \E keys \in Environments : api_keys' = keys
    /\ provider_op' = "setenv"
    /\ UNCHANGED <<provider, provider_ops, NotProvider>>

PV_MarkAvailable ==
    /\ provider_ops < MaxProviderOps
    /\ provider' = mark_available(provider)
    /\ provider_op' = "mark_available"
    /\ provider_ops' = provider_ops + 1
    /\ UNCHANGED <<api_keys, NotProvider>>

PV_MarkUnavailable ==
    /\ provider_ops < MaxProviderOps
    /\ \E error \in UpstreamErrors : provider' = mark_unavailable(provider, error)
    /\ provider_op' = "mark_unavailable"
    /\ provider_ops' = provider_ops + 1
    /\ UNCHANGED <<api_keys, NotProvider>>

PV_TrackRequest ==
    /\ provider_ops < MaxProviderOps
    /\ \E success \in BOOLEAN : provider' = track_request(provider, success, 0)
    /\ provider_op' = "track_request"
    /\ provider_ops' = provider_ops + 1
    /\ UNCHANGED <<api_keys, NotProvider>>

NextProvider ==
    \/ PV_Construct
    \/ PV_SetEnv
    \/ PV_MarkAvailable
    \/ PV_MarkUnavailable
    \/ PV_TrackRequest

SpecProvider == InitProvider /\ [][NextProvider]_vars

(***************************************************************************)
(* Vocabulary of the properties                                            *)
(***************************************************************************)
\* this step is one fetch_news call; afterwards ret, called and errors are
\* that call's result, the providers it invoked and its errors list
FetchStep == calls' = calls + 1

Range(seq) == {seq[i] : i \in 1..Len(seq)}

\* the cache file of `category`, as it is on disk
Entry(category) == cache[_get_cache_file(category)]

\* the file holds articles stamped less than / at least the TTL ago
FreshEntry(category) ==
    /\ Entry(category) # <<>>
    /\ Entry(category)[1].fetchedAt # NoTime
    /\ now - Entry(category)[1].fetchedAt < TTL_HOURS

StaleEntry(category) ==
    /\ Entry(category) # <<>>
    /\ Entry(category)[1].fetchedAt # NoTime
    /\ now - Entry(category)[1].fetchedAt >= TTL_HOURS

\* providers whose call raised in the call just made
RaisedIn(es) == {p \in ProviderIds : \E k \in 1..Len(es) : es[k].name = PROVIDER_NAMES[p]}

C2_FirstSuccessWins ==
    [][(FetchStep /\ ret'.kind = "provider")
        => LET w == ret'.from
           IN  /\ w \in Range(available_providers)
               /\ called' = SelectSeq(available_providers, LAMBDA p : p <= w)
               /\ ret'.articles # <<>>
               /\ \A i \in 1..Len(ret'.articles) :
                     ret'.articles[i].source = PROVIDER_NAMES[w]
               /\ providers'[w].successful_requests =
                     providers[w].successful_requests + 1
               /\ \A p \in ProviderIds :
                     /\ p # w => providers'[p].successful_requests =
                                    providers[p].successful_requests
                     /\ providers'[p].total_requests =
                           providers[p].total_requests
                           + (IF p \in Range(called') THEN 1 ELSE 0)]_vars

\* Guardian and GDELT fail, NewsAPI answers with two articles
C2_Witness ==
    /\ ret.kind = "provider"
    /\ ret.from = 3
    /\ called = <<1, 2, 3>>
    /\ Len(ret.articles) = 2
    /\ providers[3].successful_requests = 1

(***************************************************************************)
(* C7: when no provider succeeds in a fetch_news call and the cache holds  *)
(* a non-empty entry for the category that is past the TTL, fetch_news     *)
(* returns that entry instead of raising, and it reads it only after every *)
(* provider of the rotation has been tried.                                *)
(***************************************************************************)
C7_StaleFallback ==
    [][(FetchStep /\ StaleEntry(ret'.category) /\ ret'.kind # "provider")
        => /\ ret'.kind = "stale"
           /\ ret'.articles = Entry(ret'.category)
           /\ called' = available_providers
           /\ cache' = cache]_vars

\* all three providers were tried and failed, the stale entry is returned
C7_Witness ==
    /\ ret.kind = "stale"
    /\ called = <<1, 2, 3>>
    /\ errors # <<>>
    /\ StaleEntry(ret.category)
    /\ ret.articles = Entry(ret.category)

(***************************************************************************)
(* C3: in every fetch_news call a provider whose is_available flag is      *)
(* false when its turn comes is skipped entirely: its fetch_news is not    *)
(* invoked and its counters and last_error do not change.  (Within a call  *)
(* only a provider's own turn changes its flag, so the flag at its turn is *)
(* the flag at the start of the call.)                                     *)
(***************************************************************************)
C3_UnavailableSkipped ==
    [][FetchStep
        => \A p \in ProviderIds :
              ~providers[p].is_available
                 => /\ p \notin Range(called')
                    /\ providers'[p] = providers[p]]_vars

(***************************************************************************)
(* C4: is_available turns false exactly at the third consecutive failed    *)
(* call: a provider that was available with no failure in a row is still   *)
(* available after a fetch_news call (one more failure at most), and a     *)
(* provider whose consecutive_failures has reached 3 is unavailable.       *)
(***************************************************************************)
C4_DisabledAtThirdFailure ==
    [][FetchStep
        => \A p \in ProviderIds :
              /\ (providers[p].is_available
                  /\ providers[p].consecutive_failures = 0)
                    => providers'[p].is_available
              /\ providers'[p].consecutive_failures >= 3
                    => ~providers'[p].is_available]_vars

(***************************************************************************)
(* C5: a provider that failures had disabled and that mark_available()     *)
(* re-enabled (is_available again, failures on its record) is eligible in  *)
(* the next fetch_news that misses the cache, still in the rotation or     *)
(* not: it is called unless a provider before it answered.                 *)
(***************************************************************************)
C5_EligibleAfterMarkAvailable ==
    [][(FetchStep /\ ret'.kind # "cache")
        => \A p \in ProviderIds :
              (/\ providers[p].is_available
               /\ providers[p].failure_count > 0
               /\ (ret'.kind = "provider" => ret'.from >= p))
                 => p \in Range(called')]_vars

(***************************************************************************)
(* C6: the failure counters count failed calls exactly: a provider call    *)
(* that raises inside fetch_news adds 1 to the provider's                  *)
(* consecutive_failures and 1 to its failure_count, and the successful     *)
(* call resets consecutive_failures to 0.                                  *)
(***************************************************************************)
C6_FailureCountersExact ==
    [][FetchStep
        => \A p \in ProviderIds :
              /\ p \in RaisedIn(errors')
                    => /\ providers'[p].consecutive_failures =
                             providers[p].consecutive_failures + 1
                       /\ providers'[p].failure_count =
                             providers[p].failure_count + 1
              /\ (ret'.kind = "provider" /\ ret'.from = p)
                    => providers'[p].consecutive_failures = 0]_vars

(***************************************************************************)
(* C8: for any manager, with or without use_cache, when a fetch_news call  *)
(* has returned a provider's articles for a category and no provider       *)
(* answers in the next fetch_news for the same category, that call returns *)
(* the previously fetched articles instead of raising.                     *)
(***************************************************************************)
SameArticles(a, b) ==
    /\ Len(a) = Len(b)
    /\ \A i \in 1..Len(a) :
          [a[i] EXCEPT !.fetchedAt = NoTime] = [b[i] EXCEPT !.fetchedAt = NoTime]

C8_FallsBackToFetched ==
    [][(/\ FetchStep
        /\ ret.kind = "provider"
        /\ ret'.category = ret.category
        /\ ret'.kind # "provider")
        => /\ ret'.kind \in {"cache", "stale"}
           /\ SameArticles(ret'.articles, ret.articles)]_vars

(***************************************************************************)
(* C9: whenever fetch_news raises, the aggregate error carries a failure   *)
(* message for every provider of the manager's provider list (read in the  *)
(* claim's favour: a provider that answered this call with an empty list   *)
(* has no failure to report).                                              *)
(***************************************************************************)
C9_AggregateNamesEveryProvider ==
    ret.kind = "raise"
       => /\ ret.message = "All news providers failed: " \o Join(errors)
          /\ \A p \in ProviderIds :
                \/ p \in RaisedIn(errors)
                \/ p \in Range(called)

(***************************************************************************)
(* C10: a provider call that returns an empty list leaves the provider's   *)
(* is_available and consecutive_failures as they were (the provider was    *)
(* called, did not raise and did not answer), and fetch_news goes on with  *)
(* the next provider.                                                      *)
(***************************************************************************)
ReturnedEmpty(p) ==
    /\ p \in Range(called')
    /\ p \notin RaisedIn(errors')
    /\ ~(ret'.kind = "provider" /\ ret'.from = p)

C10_EmptyNotPenalized ==
    [][FetchStep
        => \A p \in ProviderIds :
              ReturnedEmpty(p)
                 => /\ providers'[p].is_available = providers[p].is_available
                    /\ providers'[p].consecutive_failures =
                          providers[p].consecutive_failures
                    /\ \A q \in Range(available_providers) :
                          (q > p /\ (ret'.kind = "provider" => q <= ret'.from))
                             => q \in Range(called')]_vars

(***************************************************************************)
(* C11: a provider that was removed from the active rotation is called by  *)
(* no fetch_news and stays out of the rotation until reset_providers()     *)
(* runs: only a step that is not a fetch_news call and that leaves every   *)
(* provider in the rotation, in priority order, available and with         *)
(* consecutive_failures 0, brings it back.                                 *)
(***************************************************************************)
AllReset ==
    /\ available_providers' = [i \in 1..Len(providers) |-> i]
    /\ \A q \in ProviderIds :
          /\ providers'[q].is_available
          /\ providers'[q].consecutive_failures = 0

C11_OutUntilReset ==
    [][\A p \in ProviderIds :
          p \notin Range(available_providers)
             => /\ FetchStep => p \notin Range(called')
                /\ p \in Range(available_providers')
                      => (~FetchStep /\ AllReset)]_vars

(***************************************************************************)
(* C12: the fresh-cache read at the start of fetch_news returns an entry   *)
(* only if its file was written less than the TTL (one hour) earlier,      *)
(* whichever provider produced the articles; an entry written an hour or   *)
(* more earlier is a miss for that read, the providers are tried, and only *)
(* the stale-fallback read after they all failed returns it.               *)
(***************************************************************************)
WrittenAt(category) == written[_get_cache_file(category)]

C12_FreshReadWithinTTL ==
    [][(FetchStep /\ use_cache /\ Entry(ret'.category) # <<>>)
        => /\ ret'.kind = "cache"
                 => now - WrittenAt(ret'.category) < TTL_HOURS
           /\ now - WrittenAt(ret'.category) >= TTL_HOURS
                 => /\ called' = available_providers
                       \/ ret'.kind = "provider"
                    /\ ret'.kind \in {"provider", "stale"}]_vars

(***************************************************************************)
(* Vocabulary of the RateLimiter properties                                *)
(***************************************************************************)
\* thread t returns from try_acquire in this step
CheckStep(t) ==
    /\ threads[t].pc \in {"check", "append"}
    /\ threads'[t].pc \notin {"check", "append"}

\* the grants made so far that lie in the window of time_window seconds
\* ending at time e
GrantsWithin(e) ==
    {i \in 1..Len(grants) : grants[i] > e - limiter.time_window /\ grants[i] <= e}

Min(a, b) == IF a < b THEN a ELSE b

(***************************************************************************)
(* C13: try_acquire returns true exactly when fewer than `calls` earlier   *)
(* grants lie within the last time_window seconds; a grant records the     *)
(* time the call read and a denial records nothing; so at most `calls`     *)
(* grants fall inside any window of time_window seconds, and a call made   *)
(* once the window has passed since the grants is granted again.           *)
(***************************************************************************)
C13_TryAcquireExact ==
    /\ [](\A e \in (0 - MaxHold)..0 :
             Cardinality(GrantsWithin(e)) <= limiter.calls)
    /\ [][\A t \in Threads :
            CheckStep(t)
               => /\ threads'[t].ret
                        <=> Cardinality(GrantsWithin(threads[t].now)) < limiter.calls
                  /\ threads'[t].ret
                        => /\ limiter'.timestamps =
                                 Append(limiter.timestamps, threads[t].now)
                           /\ grants' = Append(grants, threads[t].now)
                  /\ ~threads'[t].ret
                        => /\ limiter'.timestamps = limiter.timestamps
                           /\ grants' = grants]_vars

\* more calls than the limit were made and one was denied; the window
\* passed and the limit is reached again by grants made after it
C13_Witness ==
    /\ limiter # <<>>
    /\ age = limiter.time_window
    /\ polls > limiter.calls
    /\ Len(limiter.timestamps) = limiter.calls
    /\ Len(grants) > limiter.calls
    /\ \A i \in 1..Len(limiter.timestamps) : limiter.timestamps[i] = 0
    /\ \E t, u \in Threads :
          /\ threads[t].ret /\ threads[t].pc = "idle"
          /\ ~threads[u].ret /\ threads[u].pc = "idle"

(***************************************************************************)
(* C14: of the try_acquire calls made concurrently on the fresh            *)
(* RateLimiter within one window, exactly min(N, calls) have returned true *)
(* once N of them are over, for every N and under every interleaving; so   *)
(* for the N threads that call it once each.                               *)
(***************************************************************************)
C14_ConcurrentGrants ==
    (limiter # <<>> /\ age < limiter.time_window)
       => Len(grants) = Min(polls, limiter.calls)

\* every thread has made its call within the window, there were more
\* threads than tokens: some were granted and some denied
C14_Witness ==
    /\ limiter # <<>>
    /\ age < limiter.time_window
    /\ polls = NThreads
    /\ limiter.calls < NThreads
    /\ Len(grants) = limiter.calls
    /\ \A t \in Threads : threads[t].pc = "idle"
    /\ \E t, u \in Threads : threads[t].ret /\ ~threads[u].ret

(***************************************************************************)
(* C15: wait_if_needed returns only when a try_acquire poll of its own has *)
(* just been granted, and every caller inside wait_if_needed eventually    *)
(* returns, provided time keeps advancing, also while other threads keep   *)
(* calling try_acquire or wait_if_needed on the same limiter.              *)
(***************************************************************************)
C15_WaitIfNeededReturns ==
    /\ [][\A t \in Threads :
            (/\ threads[t].op = "wait_if_needed"
             /\ threads[t].pc # "idle"
             /\ threads'[t].pc = "idle")
               => /\ threads[t].pc = "append"
                  /\ threads'[t].ret
                  /\ grants' = Append(grants, threads[t].now)]_vars
    /\ \A t \in Threads :
          (threads[t].op = "wait_if_needed") ~> (threads[t].pc = "idle")

\* C15 as amended: wait_if_needed returns only when a try_acquire poll of
\* its own has just been granted, and, provided time keeps advancing, a
\* caller inside wait_if_needed eventually returns unless other callers
\* keep taking the tokens: as long as it waits, it returns or another
\* thread is granted a token, again and again.
C15_ReturnsOrOthersGranted ==
    /\ [][\A t \in Threads :
            (/\ threads[t].op = "wait_if_needed"
             /\ threads[t].pc # "idle"
             /\ threads'[t].pc = "idle")
               => /\ threads[t].pc = "append"
                  /\ threads'[t].ret
                  /\ grants' = Append(grants, threads[t].now)]_vars
    /\ \A t \in Threads :
          (threads[t].op = "wait_if_needed")
             ~> \/ threads[t].pc = "idle"
                \/ \E u \in Threads \ {t} : threads[u].pc = "append"

\* the window has passed and a wait_if_needed poll is being granted while
\* another caller of wait_if_needed is still asleep
C15_Witness ==
    /\ limiter # <<>>
    /\ age = limiter.time_window
    /\ \E t, u \in Threads :
          /\ threads[t].op = "wait_if_needed" /\ threads[t].pc = "append"
          /\ threads[u].op = "wait_if_needed" /\ threads[u].pc = "sleep"

(***************************************************************************)
(* Vocabulary of the EnhancedCache properties                              *)
(***************************************************************************)
\* this step is a whole get() call of the only caller
GetStep == ops' = ops + 1 /\ workers'[1].op = "get"

(***************************************************************************)
(* C16: round trip on one EnhancedCache: for every key, value and ttl,     *)
(* after set(k, v, ttl) a get(k) made before the expiry returns v and a    *)
(* get(k) made once the expiry has elapsed returns None; a get of a key    *)
(* that was never set returns None.                                        *)
(***************************************************************************)
C16_RoundTrip ==
    [][GetStep
        => LET sh == shadow[workers'[1].key]
           IN  /\ (sh.here /\ clock < sh.expiry) => workers'[1].ret = sh.value
               /\ (sh.here /\ clock >= sh.expiry) => workers'[1].ret = None
               /\ ~sh.set => workers'[1].ret = None]_vars

(***************************************************************************)
(* C17: get(k) on an instance whose memory tier lacks k (a fresh instance  *)
(* on the same directory after a restart, for one) returns the value of an *)
(* unexpired disk entry that an earlier set wrote and copies it, with its  *)
(* original expiry, into the memory tier; an expired disk entry is deleted *)
(* and reported as not found.                                              *)
(***************************************************************************)
C17_DiskPromotion ==
    [][GetStep
        => LET k == workers'[1].key
               f == disk[k]
           IN  (~memory_cache[k].present /\ f.state = "complete")
                  => IF f.expiry > clock
                     THEN /\ workers'[1].ret = json_load(f.value)
                          /\ memory_cache'[k] =
                                [present |-> TRUE, value |-> json_load(f.value),
                                 expiry |-> f.expiry]
                          /\ disk' = disk
                     ELSE /\ workers'[1].ret = None
                          /\ disk'[k] = NoFile
                          /\ ~memory_cache'[k].present]_vars

\* after a restart the get found the tuple that the earlier process had set
\* and holds it in memory with the expiry of the file
C17_Witness ==
    /\ workers # <<>>
    /\ workers[1].op = "get"
    /\ workers[1].ret = "[1, 2]"
    /\ LET k == workers[1].key
       IN  /\ shadow[k].set /\ ~shadow[k].here
           /\ memory_cache[k].present
           /\ memory_cache[k].expiry = disk[k].expiry
           /\ disk[k].state = "complete"

(***************************************************************************)
(* C18: set is atomic relative to reads: no get ever reads a partially     *)
(* written disk entry, so a get that overlaps a set(k, v) never ends with  *)
(* not found because of a half-written file.                               *)
(***************************************************************************)
C18_NoPartialRead ==
    [][\A w \in Workers :
          (workers[w].pc = "get_file" /\ workers'[w].pc # "get_file")
             => disk[workers[w].key].state # "partial"]_vars

(***************************************************************************)
(* C19: the sweep of clear_expired and the expiring get remove no entry    *)
(* whose expiry is still in the future, from the memory tier or from the   *)
(* disk, whatever get and set calls they interleave with: the entry of a   *)
(* set that rewrites the key while they examine its old file is not lost.  *)
(***************************************************************************)
C19_SweepKeepsLiveEntries ==
    [][(\E w \in Workers :
           /\ workers[w].op \in {"clear_expired", "get"}
           /\ workers[w].pc # "idle"
           /\ workers'[w] # workers[w])
        => \A k \in Keys :
              /\ (disk[k].state = "complete" /\ disk[k].expiry > clock)
                    => disk'[k].state # "absent"
              /\ (memory_cache[k].present /\ memory_cache[k].expiry > clock)
                    => memory_cache'[k].present]_vars

(***************************************************************************)
(* C20: concurrent writers of one key are last-writer-wins: when the       *)
(* threads have each made one set call on the same key, overlapping or     *)
(* not, and all have returned, the memory tier and the disk tier hold the  *)
(* same value and expiry for the key, those of one of the calls.           *)
(***************************************************************************)
SetsReturned(k) ==
    /\ workers # <<>>
    /\ ops = NWorkers
    /\ \A w \in Workers :
          /\ workers[w].pc = "idle"
          /\ workers[w].op = "set"
          /\ workers[w].key = k

C20_LastWriterWins ==
    \A k \in Keys :
       SetsReturned(k)
          => /\ memory_cache[k].present
             /\ disk[k].state = "complete"
             /\ disk[k].value = json_dump(memory_cache[k].value)
             /\ disk[k].expiry = memory_cache[k].expiry
             /\ \E w \in Workers :
                   /\ workers[w].value = memory_cache[k].value
                   /\ workers[w].expiry = memory_cache[k].expiry

\* this step is one record_health_check call
RecordStep == checks' = checks + 1 /\ health_op' = "record_health_check"

\* C21: once record_health_check has been called, whatever update_component
\* calls are interleaved, status is healthy when consecutive_failures is 0,
\* degraded when it is 1 to 3 and failing when it is more than 3; each
\* recorded success sets consecutive_failures to 0 and each recorded
\* failure adds 1 to it.
C21_StatusFollowsFailures ==
    /\ [](recorded =>
            /\ state.consecutive_failures = 0 => state.status = "healthy"
            /\ state.consecutive_failures \in 1..3 => state.status = "degraded"
            /\ state.consecutive_failures > 3 => state.status = "failing")
    /\ [][/\ RecordStep =>
               \/ state'.consecutive_failures = 0
                  /\ state'.total_success = state.total_success + 1
               \/ state'.consecutive_failures = state.consecutive_failures + 1
                  /\ state'.total_failures = state.total_failures + 1
          /\ ~RecordStep =>
               state'.consecutive_failures = state.consecutive_failures]_vars

\* four failures in a row were recorded, a component was updated, and the
\* status reads failing
C21_Witness ==
    /\ recorded
    /\ state.consecutive_failures = 4
    /\ state.status = "failing"
    /\ state.component_status["news_api"] = "error"

\* the last call was log_error / get_error_summary and has just ended
LoggedNow == em_ret.op = "log_error"

SummarizedNow == em_ret.op = "get_error_summary"

\* the entries logged so far that lie inside the time window
InWindow == SelectSeq(logged,
                LAMBDA error : em_now - error.timestamp < TIME_WINDOW_MINUTES)

\* C22: a log_error call that reached the alert threshold and whose
\* notification was not delivered (configuration missing, or an error while
\* building or sending) returns normally, and its new entry was in the list
\* and in the file when the notification was attempted.
C22_AlertNeverFailsCaller ==
    (LoggedNow /\ Len(monitor_errors) >= ALERT_THRESHOLD) =>
        /\ em_ret.alert \in {"missing", "error", "sent"}
        /\ em_ret.alert # "sent" =>
             /\ ~em_ret.raised
             /\ em_ret.errors_at_alert # <<>>
             /\ em_ret.errors_at_alert[Len(em_ret.errors_at_alert)]
                   = logged[Len(logged)]
             /\ em_ret.file_at_alert = _save_errors(em_ret.errors_at_alert)
             /\ monitor_errors = em_ret.errors_at_alert
             /\ error_file = em_ret.file_at_alert

\* the fifth error inside one window was logged with the e-mail settings
\* present, the alert failed, and the call returned
C22_Witness ==
    /\ LoggedNow
    /\ email_configured
    /\ Len(monitor_errors) = ALERT_THRESHOLD
    /\ em_ret.alert = "error"
    /\ ~em_ret.raised

\* C23: once an error has been logged, get_error_summary returns normally;
\* its total_errors is the number of entries logged inside the time window
\* and its error_distribution maps every type logged inside the window to
\* the number of its entries.
C23_SummaryCounts ==
    (SummarizedNow /\ logged # <<>>) =>
        /\ ~em_ret.raised
        /\ em_ret.summary.total_errors = Len(InWindow)
        /\ em_ret.summary.error_distribution = Distribution(InWindow)

\* C28: when a log_error call has just ended, the in-memory list and the
\* persisted file both hold exactly the entries logged inside the time
\* window, in logging order, the new entry last: older entries were
\* discarded by that call and no entry inside the window is missing.
C28_WindowExactAfterLog ==
    LoggedNow =>
        /\ monitor_errors = InWindow
        /\ error_file = _save_errors(InWindow)
        /\ monitor_errors[Len(monitor_errors)] = logged[Len(logged)]

\* a log_error call discarded an entry that had left the window and kept
\* one that had not
C28_Witness ==
    /\ LoggedNow
    /\ Len(monitor_errors) >= 2
    /\ Len(logged) > Len(monitor_errors)
    /\ error_file.entries = monitor_errors

\* the keys of the alias table
AliasKeys == {CATEGORY_MAPPING[i][1] : i \in 1..Len(CATEGORY_MAPPING)}

AliasOf(key) ==
    CATEGORY_MAPPING[CHOOSE i \in 1..Len(CATEGORY_MAPPING) :
                        CATEGORY_MAPPING[i][1] = key][2]

\* the provider category of the article, lower-cased and stripped
Declared ==
    IF article.category \in {None, ""} THEN <<>>
    ELSE Strip(Lower(CharsOf(article.category)))

\* the highest keyword-match count of the article's text
TopScore ==
    CHOOSE n \in 0..3 :
        /\ \E k \in Labels : TextScores(article.text, k) = n
        /\ \A k \in Labels : TextScores(article.text, k) <= n

\* C24: get_category returns the provider category itself when that is a
\* supported label, the alias target when it is a key of the alias table,
\* whatever the text; otherwise a category with the highest keyword-match
\* count if that count is at least 2; otherwise general.
C24_ThreeTierPrecedence ==
    category_out # None =>
        IF \E k \in Labels : CharsOf(k) = Declared
        THEN CharsOf(category_out) = Declared
        ELSE IF \E a \in AliasKeys : CharsOf(a) = Declared
        THEN category_out = AliasOf(CHOOSE a \in AliasKeys : CharsOf(a) = Declared)
        ELSE IF TopScore >= 2
        THEN /\ category_out \in Labels
             /\ TextScores(article.text, category_out) = TopScore
        ELSE category_out = "general"

\* C25: every category get_category returns is a key of CATEGORY_PATTERNS
\* or general, whatever category string the provider supplied.
C25_CategoryInLabelSet ==
    category_out # None => category_out \in Labels \cup {"general"}

\* the index of the provider object's class
ProviderId == CHOOSE p \in ProviderIds : PROVIDER_NAMES[p] = provider.name

\* C26: a Guardian or NewsAPI provider that has just been constructed is
\* unavailable with an "API key not found" error when its API key is not
\* set, and available with last_error None when the key is set.
C26_NoKeyStartsUnavailable ==
    (provider_op = "__init__" /\ provider.name \in {"Guardian", "NewsAPI"}) =>
        IF api_keys[ProviderId]
        THEN provider.is_available /\ provider.last_error = None
        ELSE /\ ~provider.is_available
             /\ provider.last_error \in {"Guardian API key not found",
                                         "NewsAPI key not found"}

\* C29: between fetch_news calls the rotation available_providers is
\* exactly the providers whose is_available flag is true, in priority
\* order.
C29_RotationMatchesFlags ==
    available_providers = AvailableFrom(1, providers)

\* this step ends the process and opens a new EnhancedCache
RestartStep ==
    /\ \A w \in Workers : workers[w].pc = "idle" /\ workers'[w].pc = "idle"
    /\ memory_cache' = NewEnhancedCache

\* C27: shared state is written under mutual exclusion only: the thread
\* whose step changes EnhancedCache.memory_cache (the insert of set, the
\* promotion of get, the deletes of get and clear_expired) holds the
\* cache's lock at that step, and a thread that reads or changes
\* RateLimiter.timestamps holds the limiter's lock.
C27_SharedStateUnderLock ==
    [][(memory_cache' # memory_cache /\ ~RestartStep)
          => \E w \in Workers : cache_lock = w /\ workers'[w] # workers[w]]_vars

\* the value v as get hands it back from memory or from the file
Matches(r, v) == r = v \/ r = json_load(json_dump(v))

\* thread w returns from get(k) with r: r is the value of a set(k) call that
\* had returned before the one that returned last was made, and neither the
\* value of that one nor of a set(k) call in progress
StaleFor(w, k, r) ==
    /\ \E v \in returned[k].older : Matches(r, v)
    /\ ~Matches(r, returned[k].value)
    /\ \A u \in Workers :
          (workers[u].op = "set" /\ workers[u].key = k /\ workers[u].pc # "idle")
             => ~Matches(r, workers[u].value)

\* C30: a get(k) that began after set(k, v2) had returned, and that returns
\* before v2 expires with no other set(k) having returned meanwhile, does
\* not return the value of a set(k) that had returned before set(k, v2)
\* was called, unless v2 or a set in progress wrote that value too; also
\* when another get(k) that was in progress during the set finishes its
\* promotion afterwards.
C30_NoStaleReadAfterSet ==
    [][\A w \in Workers :
          LET k == workers[w].key
              r == workers'[w].ret
          IN  (/\ workers[w].op = "get"
               /\ workers[w].pc # "idle"
               /\ workers'[w].pc = "idle"
               /\ began[w].after
               /\ clock < returned[k].expiry
               /\ r # None)
                 => ~StaleFor(w, k, r)]_vars

=============================================================================
